---------------------------- MODULE Spec2Model ----------------------------
(***************************************************************************)
(* Model of the motion controller (src/src/control/robot.py):             *)
(* RobotController with its command path (move, joystick_control, start,  *)
(* stop), its control-loop threads and its auto-stop timer threads; of the *)
(* gimbal angles and the frame path of CameraManager                       *)
(* (src/src/vision/camera.py); and of SpeechEngine                         *)
(* (src/src/utils/speech.py) with its speech loop and its callers.          *)
(*                                                                         *)
(* Floats are fixed-point integers in thousandths (1.0 is Unit).  Threads  *)
(* interleave between any two accesses of shared attributes;               *)
(* RobotController and CameraManager hold no lock, SpeechEngine holds      *)
(* speech_lock.  Time is abstracted: a sleep may end at any moment.        *)
(***************************************************************************)
EXTENDS Integers, Sequences, FiniteSets, TLC

VARIABLES
    current_direction,  \* self.current_direction (a Direction value)
    current_speed,      \* self.current_speed, thousandths
    motors,             \* self.motors: 1..NumMotors -> [speed, direction]
    running,            \* self.running
    control_thread,     \* self.control_thread: 0 (None) or a loop thread id
    pc,                 \* position of the command path (the caller thread)
    frame,              \* locals of the call in progress
    result,             \* value returned by the last finished call
    loops,              \* control-loop threads: id -> [pc, k, spd]
    timers,             \* auto-stop threads: id -> [pc, k]
    ncmds,              \* number of calls issued so far
    obs,                \* history: what has happened since the last move returned
    horizontal_angle,   \* CameraManager.horizontal_angle, thousandths of a degree
    vertical_angle,     \* CameraManager.vertical_angle, thousandths of a degree
    gimbal_call,        \* name and arguments of the last gimbal call
    gimbal_result,      \* value returned by the last gimbal call
    speech_ready,       \* SpeechEngine._init_tts_engine has run
    engine,             \* SpeechEngine.engine: TRUE for a pyttsx3 engine, FALSE for None
    speaking,           \* SpeechEngine.speaking
    speech_queue,       \* SpeechEngine.speech_queue
    speech_lock,        \* SpeechEngine.speech_lock: its holder, or Free
    speech_threads,     \* speech-loop threads: id -> [pc, text]
    speakers,           \* threads calling speak and is_speaking: id -> [pc, text, ret]
    appended,           \* history: the texts in the order of their append
    rendered,           \* history: the texts handed to the engine, in order, with outcome
    nspeak,             \* number of speech calls issued so far
    camera_ready,       \* CameraManager._init_camera has run
    camera,             \* CameraManager.camera: TRUE for a capture device, FALSE for None
    camera_running,     \* CameraManager.running
    current_frame,      \* CameraManager.current_frame: 0 (None) or the number of a frame
    camera_thread,      \* CameraManager.camera_thread: 0 (None) or a thread id
    camera_loops,       \* camera-loop threads: id -> [pc, hist, late]
    viewer,             \* the thread calling get_current_frame: [pc]
    frame_result,       \* value returned by the last get_current_frame
    captured,           \* history: number of the last frame read from the device
    ncam,               \* number of camera calls issued so far
    status,             \* the dict returned by the last RobotController.get_status
    frame_marks,        \* the frames a reader has written into
    peer_connections,   \* CameraManager.peer_connections: the active sessions
    sessions,           \* WebRTC sessions: id -> [state, neg]
    shutdown,           \* AISmartCar.stop has been called
    gimbal_threads,     \* threads inside a gimbal joystick_control: id -> locals
    rate,               \* SpeechEngine.rate
    engine_rate,        \* the 'rate' property of the pyttsx3 engine, in tenths
    rate_for            \* history: the text the speech loop last set the rate
                        \* for, the self.rate it read, and whether no set_rate
                        \* call has written the engine's rate since

gimbalVars == <<horizontal_angle, vertical_angle, gimbal_call, gimbal_result>>

speechVars == <<speech_ready, engine, speaking, speech_queue, speech_lock,
                speech_threads, speakers, appended, rendered, nspeak>>

moreVars == <<status, frame_marks, peer_connections, sessions, shutdown,
              gimbal_threads, rate, engine_rate, rate_for>>

cameraVars == <<camera_ready, camera, camera_running, current_frame,
                camera_thread, camera_loops, viewer, frame_result, captured,
                ncam>>

robotVars == <<current_direction, current_speed, motors, running,
               control_thread, pc, frame, result, loops, timers, ncmds, obs>>

vars == <<robotVars, gimbalVars, speechVars, cameraVars, moreVars>>

motionVars == <<current_direction, current_speed, motors>>

-----------------------------------------------------------------------------
(* Bounds of the model *)

MaxCmds == 2

MaxSeqCmds == 2

MaxTimedCmds == 4

MaxTimers == 1

MaxLoops == 2

MaxGimbalCmds == 3

MaxSpeakers == 2

MaxSpeechCalls == 2

MaxSpeechThreads == 2

MaxCameraLoops == 1

MaxCameraCalls == 4

MaxFrames == 3

MaxStatusCmds == 3

MaxSessions == 2

MaxGimbalThreads == 2

MaxRateCalls == 3

-----------------------------------------------------------------------------
(* Program constants *)

Unit == 1000

NumMotors == 4

DefaultSpeed == 500

DeadZone == 100

TurnScaleNum == 7

TurnScaleDen == 10

HorizontalInit == 80000

VerticalInit == 40000

HorizontalMin == 35000

HorizontalMax == 125000

VerticalMin == -5000

VerticalMax == 85000

DegreesPerUnit == 5

FrameWidth == 640

FrameHeight == 480

DefaultRate == 150

ChineseRateNum == 8

ChineseRateDen == 10

None == "None"

Directions == {"forward", "backward", "left", "right", "stop"}

MotorIds == 1..NumMotors

\* dict order of self.motors: front_left, front_right, rear_left, rear_right
MotorNames == <<"front_left", "front_right", "rear_left", "rear_right">>

InitMotors == [m \in MotorIds |-> [speed |-> 0, direction |-> 1]]

-----------------------------------------------------------------------------
(* Pure helpers *)

Min(a, b) == IF a < b THEN a ELSE b

Max(a, b) == IF a > b THEN a ELSE b

\* Mutant of ClampSpeed: the upper limit is forgotten.
ClampSpeedNoUpper(s) == Max(0, s)

\* speed = max(0.0, min(1.0, speed))
ClampSpeed(s) == Max(0, Min(Unit, s))

\* x = max(-1.0, min(1.0, x))
ClampAxis(v) == Max(0 - Unit, Min(Unit, v))

\* floor of the square root of n >= 0, by bisection on lo <= r < hi
RECURSIVE SqrtBetween(_, _, _)
SqrtBetween(n, lo, hi) ==
    IF hi - lo <= 1 THEN lo
    ELSE LET mid == (lo + hi) \div 2
         IN  IF mid * mid <= n THEN SqrtBetween(n, mid, hi)
                               ELSE SqrtBetween(n, lo, mid)

Abs(v) == IF v < 0 THEN 0 - v ELSE v

\* math.sqrt(x*x + y*y) in thousandths, x and y in thousandths, rounded
\* down; the root lies between max(|x|, |y|) and |x| + |y|
Magnitude(x, y) ==
    SqrtBetween(x * x + y * y, Max(Abs(x), Abs(y)), Abs(x) + Abs(y) + 1)

\* math.atan2(y, x) in eighths of pi, doubled so that the open octants get
\* odd values: 2k stands for the angle k*pi/4, 2k+1 for an angle strictly
\* between k*pi/4 and (k+1)*pi/4.  The value lies in -7..8 (pi is 8).
Atan2(y, x) ==
    CASE y = 0 /\ x >= 0          -> 0
      [] y = 0 /\ x < 0           -> 8
      [] y > 0 /\ x > 0 /\ y < x  -> 1
      [] y > 0 /\ x > 0 /\ y = x  -> 2
      [] y > 0 /\ x > 0 /\ y > x  -> 3
      [] y > 0 /\ x = 0           -> 4
      [] y > 0 /\ x < 0 /\ y > -x -> 5
      [] y > 0 /\ x < 0 /\ y = -x -> 6
      [] y > 0 /\ x < 0 /\ y < -x -> 7
      [] y < 0 /\ x > 0 /\ -y < x -> -1
      [] y < 0 /\ x > 0 /\ -y = x -> -2
      [] y < 0 /\ x > 0 /\ -y > x -> -3
      [] y < 0 /\ x = 0           -> -4
      [] y < 0 /\ x < 0 /\ y < x  -> -5
      [] y < 0 /\ x < 0 /\ y = x  -> -6
      [] y < 0 /\ x < 0 /\ y > x  -> -7

PiOver4 == 2

ThreePiOver4 == 6

\* Mutant of TurnScale: the turn speed is not reduced.
TurnScaleOff(s) == s

\* speed *= 0.7
TurnScale(s) == (s * TurnScaleNum) \div TurnScaleDen

\* Mutant of JoystickQuadrant: the upper boundary pi/4 of Right is exclusive.
JoystickQuadrantOpen(angle, speed) ==
    IF -PiOver4 <= angle /\ angle < PiOver4
      THEN [direction |-> "right", speed |-> TurnScale(speed)]
    ELSE IF PiOver4 <= angle /\ angle <= ThreePiOver4
      THEN [direction |-> "forward", speed |-> speed]
    ELSE IF -ThreePiOver4 <= angle /\ angle < -PiOver4
      THEN [direction |-> "backward", speed |-> speed]
    ELSE [direction |-> "left", speed |-> TurnScale(speed)]

\* The direction and speed joystick_control hands to move for the clamped
\* magnitude speed and the angle: the if/elif chain of lines 238-253.
JoystickQuadrant(angle, speed) ==
    IF -PiOver4 <= angle /\ angle <= PiOver4
      THEN [direction |-> "right", speed |-> TurnScale(speed)]
    ELSE IF PiOver4 < angle /\ angle <= ThreePiOver4
      THEN [direction |-> "forward", speed |-> speed]
    ELSE IF -ThreePiOver4 <= angle /\ angle < -PiOver4
      THEN [direction |-> "backward", speed |-> speed]
    ELSE [direction |-> "left", speed |-> TurnScale(speed)]

\* Mutant of JoystickResolve: the deadzone test is left out.
JoystickResolveNoDeadzone(x, y) ==
    LET cx == ClampAxis(x)
        cy == ClampAxis(y)
    IN  JoystickQuadrant(Atan2(cy, cx), Min(Unit, Magnitude(cx, cy)))

\* The arguments of the move call that joystick_control(x, y) makes.
JoystickResolve(x, y) ==
    LET cx == ClampAxis(x)
        cy == ClampAxis(y)
        speed == Min(Unit, Magnitude(cx, cy))
    IN  IF speed < DeadZone
          THEN [direction |-> "stop", speed |-> DefaultSpeed]
          ELSE JoystickQuadrant(Atan2(cy, cx), speed)

\* Mutant of WheelRow: the rows of left and right are exchanged.
WheelRowSwapped(d) ==
    CASE d = "forward"  -> <<1, 1, 1, 1>>
      [] d = "backward" -> <<-1, -1, -1, -1>>
      [] d = "left"     -> <<1, -1, 1, -1>>
      [] d = "right"    -> <<-1, 1, -1, 1>>

\* The table of move: the four arguments of _set_motor_directions.
WheelRow(d) ==
    CASE d = "forward"  -> <<1, 1, 1, 1>>
      [] d = "backward" -> <<-1, -1, -1, -1>>
      [] d = "left"     -> <<-1, 1, -1, 1>>
      [] d = "right"    -> <<1, -1, 1, -1>>

-----------------------------------------------------------------------------
(* State after construction: __init__ and _init_motors *)

LoopIds == 1..MaxLoops

TimerIds == 1..MaxTimers

NoFrame ==
    [op |-> "none", direction |-> "stop", speed_in |-> 0, speed |-> 0,
     duration |-> None, x |-> 0, y |-> 0, k |-> 0, ret |-> "idle"]

\* A call that returns None (start, stop) or has not returned yet.
NoResult ==
    [kind |-> "none", direction |-> "stop", speed |-> 0, duration |-> None]

\* {"success": False, "error": ...}
ErrorResult ==
    [kind |-> "error", direction |-> "stop", speed |-> 0, duration |-> None]

\* {"success": True, "direction": ..., "speed": ..., "duration": ...}
OkResult(d, s, dur) ==
    [kind |-> "ok", direction |-> d, speed |-> s, duration |-> dur]

Dirty == [phase |-> "dirty", loop |-> 0]

SpeechThreadIds == 1..MaxSpeechThreads

SpeakerIds == 1..MaxSpeakers

\* threading.Lock(): the value of speech_lock when no thread holds it
Free == <<"free", 0>>

\* A queue entry: the text, tagged with the caller and the rank of its
\* speak call among the calls with a text (the tags are history, the code
\* holds the text)
NoItem == [text |-> "", by |-> 0, n |-> 0]

SpeakerIdle == [pc |-> "idle", op |-> "none", item |-> NoItem,
                ret |-> FALSE, during |-> FALSE]

\* SpeechEngine.__init__ before _init_tts_engine: lines 31-34
SpeechNew ==
    /\ speech_ready = FALSE
    /\ engine = FALSE
    /\ speaking = FALSE
    /\ speech_queue = <<>>
    /\ speech_lock = Free
    /\ speech_threads = [t \in SpeechThreadIds |-> [pc |-> "unborn", item |-> NoItem]]
    /\ speakers = [c \in SpeakerIds |-> SpeakerIdle]
    /\ appended = <<>>
    /\ rendered = <<>>
    /\ nspeak = 0

CameraLoopIds == 1..MaxCameraLoops

\* get_current_frame has not returned yet
NoFrameResult ==
    [kind |-> "none", frame |-> 0, height |-> 0, width |-> 0, latest |-> 0]

\* CameraManager.__init__ before _init_camera: lines 72-75
CameraNew ==
    /\ camera_ready = FALSE
    /\ camera = FALSE
    /\ camera_running = FALSE
    /\ current_frame = 0
    /\ camera_thread = 0
    /\ camera_loops = [i \in CameraLoopIds |-> [pc |-> "unborn", hist |-> "none", late |-> FALSE]]
    /\ viewer = [pc |-> "idle"]
    /\ frame_result = NoFrameResult
    /\ captured = 0
    /\ ncam = 0

SessionIds == 1..MaxSessions

GimbalThreadIds == 1..MaxGimbalThreads

\* get_status has not been called
NoStatus ==
    [kind |-> "none", running |-> FALSE, direction |-> "stop", speed |-> 0,
     motors |-> "none", then |-> InitMotors]

GimbalThreadIdle == [pc |-> "idle", x |-> 0, y |-> 0, h |-> 0, v |-> 0]

\* The rest of the state after construction: no status taken, no session
\* (camera.py line 86), no reader, the configured rate (speech.py lines
\* 27 and 50)
MoreNew ==
    /\ status = NoStatus
    /\ frame_marks = {}
    /\ peer_connections = {}
    /\ sessions = [s \in SessionIds |-> [state |-> "unborn", neg |-> "none"]]
    /\ shutdown = FALSE
    /\ gimbal_threads = [g \in GimbalThreadIds |-> GimbalThreadIdle]
    /\ rate = DefaultRate
    /\ engine_rate = DefaultRate * ChineseRateDen
    /\ rate_for = [n |-> 0, rate |-> DefaultRate, fresh |-> TRUE]

Init ==
    /\ current_direction = "stop"
    /\ current_speed = 0
    /\ motors = InitMotors
    /\ running = FALSE
    /\ control_thread = 0
    /\ pc = "idle"
    /\ frame = NoFrame
    /\ result = NoResult
    /\ loops = [i \in LoopIds |-> [pc |-> "unborn", k |-> 0, spd |-> 0]]
    /\ timers = [j \in TimerIds |-> [pc |-> "unborn", k |-> 0]]
    /\ ncmds = 0
    /\ obs = Dirty
    /\ horizontal_angle = HorizontalInit
    /\ vertical_angle = VerticalInit
    /\ gimbal_call = [op |-> "none", action |-> "none", value |-> 0,
                      x |-> 0, y |-> 0]
    /\ gimbal_result = [kind |-> "none",
                        has_horizontal |-> FALSE, horizontal_angle |-> 0,
                        has_vertical |-> FALSE, vertical_angle |-> 0]
    /\ SpeechNew
    /\ CameraNew
    /\ MoreNew

-----------------------------------------------------------------------------
(* _stop_motors, one attribute write at a time: the speed of each motor in *)
(* dict order, then current_speed, then current_direction.                  *)

StopMotorsLast == NumMotors + 2

StopMotorsStep(k) ==
    IF k <= NumMotors
      THEN /\ motors' = [motors EXCEPT ![k].speed = 0]
           /\ UNCHANGED <<current_speed, current_direction>>
    ELSE IF k = NumMotors + 1
      THEN /\ current_speed' = 0
           /\ UNCHANGED <<motors, current_direction>>
    ELSE /\ current_direction' = "stop"
         /\ UNCHANGED <<motors, current_speed>>

-----------------------------------------------------------------------------
(* The command path *)

FreeTimers == {j \in TimerIds : timers[j].pc = "unborn"}

FreeLoops == {i \in LoopIds : loops[i].pc = "unborn"}

\* Mutant of MoveEnter: the auto-stop thread is started before the direction
\* is validated.
MoveEnterTimerFirst(op, d, s, dur, x, y) ==
    /\ pc = "idle"
    /\ dur # None => FreeTimers # {}
    /\ ncmds' = ncmds + 1
    /\ frame' = [op |-> op, direction |-> d, speed_in |-> s,
                 speed |-> ClampSpeed(s),
                 duration |-> IF d \in Directions THEN None ELSE dur,
                 x |-> x, y |-> y, k |-> 1, ret |-> "m180"]
    /\ IF dur # None
         THEN LET j == CHOOSE t \in FreeTimers : \A u \in FreeTimers : t <= u
              IN  timers' = [timers EXCEPT ![j] = [pc |-> "sleep", k |-> 0]]
         ELSE timers' = timers
    /\ IF d \in Directions
         THEN /\ pc' = "m165"
              /\ result' = NoResult
              /\ obs' = [phase |-> "calling", loop |-> 0]
         ELSE /\ pc' = "idle"
              /\ result' = ErrorResult
              /\ obs' = Dirty
    /\ UNCHANGED <<motionVars, running, control_thread, loops, gimbalVars, speechVars, cameraVars, moreVars>>

\* Entry of move with the arguments (d, s, dur): lines 152-162.  Validation
\* and the clamp touch only locals.
MoveEnter(op, d, s, dur, x, y) ==
    /\ pc = "idle"
    /\ (d \in Directions /\ dur # None) => FreeTimers # {}
    /\ ncmds' = ncmds + 1
    /\ frame' = [op |-> op, direction |-> d, speed_in |-> s,
                 speed |-> ClampSpeed(s), duration |-> dur,
                 x |-> x, y |-> y, k |-> 1, ret |-> "m180"]
    /\ IF d \in Directions
         THEN /\ pc' = "m165"
              /\ result' = NoResult
              /\ obs' = [phase |-> "calling", loop |-> 0]
         ELSE /\ pc' = "idle"
              /\ result' = ErrorResult
              /\ obs' = Dirty
    /\ UNCHANGED <<motionVars, running, control_thread, loops, timers, gimbalVars, speechVars, cameraVars, moreVars>>

\* move(direction, speed, duration) called by the dispatcher
Move(d, s, dur) == MoveEnter("move", d, s, dur, 0, 0)

\* joystick_control(x, y): lines 222-256, ending in a call of move
JoystickControl(x, y) ==
    LET r == JoystickResolve(x, y)
    IN  MoveEnter("joystick", r.direction, r.speed, None, x, y)

\* line 165: self.current_direction = direction
MoveSetDirection ==
    /\ pc = "m165"
    /\ current_direction' = frame.direction
    /\ pc' = "m166"
    /\ UNCHANGED <<current_speed, motors, running, control_thread, frame,
                   result, loops, timers, ncmds, obs, gimbalVars, speechVars, cameraVars, moreVars>>

\* line 166: self.current_speed = speed, then the branch of lines 169-178
MoveSetSpeed ==
    /\ pc = "m166"
    /\ current_speed' = frame.speed
    /\ pc' = IF frame.direction = "stop" THEN "stop_motors" ELSE "set_dir"
    /\ UNCHANGED <<current_direction, motors, running, control_thread, frame,
                   result, loops, timers, ncmds, obs, gimbalVars, speechVars, cameraVars, moreVars>>

\* _set_motor_directions: lines 207-210, one motor per step
SetMotorDirection ==
    /\ pc = "set_dir"
    /\ motors' = [motors EXCEPT
                    ![frame.k].direction = WheelRow(frame.direction)[frame.k]]
    /\ IF frame.k = NumMotors
         THEN pc' = "m180" /\ frame' = [frame EXCEPT !.k = 0]
         ELSE pc' = pc /\ frame' = [frame EXCEPT !.k = frame.k + 1]
    /\ UNCHANGED <<current_direction, current_speed, running, control_thread,
                   result, loops, timers, ncmds, obs, gimbalVars, speechVars, cameraVars, moreVars>>

\* _stop_motors run by the command path (from move or from stop)
CallerStopMotors ==
    /\ pc = "stop_motors"
    /\ StopMotorsStep(frame.k)
    /\ IF frame.k = StopMotorsLast
         THEN pc' = frame.ret /\ frame' = [frame EXCEPT !.k = 0]
         ELSE pc' = pc /\ frame' = [frame EXCEPT !.k = frame.k + 1]
    /\ UNCHANGED <<running, control_thread, result, loops, timers, ncmds, obs, gimbalVars, speechVars, cameraVars, moreVars>>

\* Mutant of MoveReturn: with a duration the call itself sleeps and stops
\* the motors before it returns.
MoveReturnBlocking ==
    /\ pc = "m180"
    /\ IF frame.duration # None
         THEN /\ pc' = "stop_motors"
              /\ frame' = [frame EXCEPT !.k = 1, !.duration = None]
              /\ UNCHANGED <<result, obs>>
         ELSE /\ pc' = "idle"
              /\ result' = OkResult(frame.direction, frame.speed, frame.duration)
              /\ obs' = IF obs.phase = "calling"
                          THEN [phase |-> "returned", loop |-> 0] ELSE obs
              /\ frame' = frame
    /\ UNCHANGED <<motionVars, running, control_thread, loops, timers, ncmds,
                   gimbalVars, speechVars, cameraVars, moreVars>>

\* lines 180-196: start the timer thread when a duration is given, return
MoveReturn ==
    /\ pc = "m180"
    /\ IF frame.duration # None
         THEN LET j == CHOOSE t \in FreeTimers : \A u \in FreeTimers : t <= u
              IN  timers' = [timers EXCEPT ![j] = [pc |-> "sleep", k |-> 0]]
         ELSE timers' = timers
    /\ result' = OkResult(frame.direction, frame.speed, frame.duration)
    /\ pc' = "idle"
    /\ obs' = IF obs.phase = "calling"
                THEN [phase |-> "returned", loop |-> 0] ELSE obs
    /\ UNCHANGED <<motionVars, running, control_thread, frame, loops, ncmds,
                   gimbalVars, speechVars, cameraVars, moreVars>>

\* start(): lines 68-82
Start ==
    /\ pc = "idle"
    /\ running \/ FreeLoops # {}
    /\ ncmds' = ncmds + 1
    /\ frame' = [NoFrame EXCEPT !.op = "start"]
    /\ result' = NoResult
    /\ obs' = Dirty
    /\ IF running
         THEN UNCHANGED <<running, control_thread, loops>>
         ELSE LET i == CHOOSE t \in FreeLoops : \A u \in FreeLoops : t <= u
              IN  /\ running' = TRUE
                  /\ control_thread' = i
                  /\ loops' = [loops EXCEPT ![i] =
                                 [pc |-> "check", k |-> 0, spd |-> 0]]
    /\ UNCHANGED <<motionVars, pc, timers, gimbalVars, speechVars, cameraVars, moreVars>>

\* stop(): lines 84-94, up to the call of _stop_motors
Stop ==
    /\ pc = "idle"
    /\ ncmds' = ncmds + 1
    /\ result' = NoResult
    /\ obs' = Dirty
    /\ IF running
         THEN /\ running' = FALSE
              /\ pc' = "stop_motors"
              /\ frame' = [NoFrame EXCEPT !.op = "stop", !.k = 1, !.ret = "join"]
         ELSE /\ UNCHANGED <<running, pc>>
              /\ frame' = [NoFrame EXCEPT !.op = "stop"]
    /\ UNCHANGED <<motionVars, control_thread, loops, timers, gimbalVars, speechVars, cameraVars, moreVars>>

\* stop(): lines 96-100.  join(timeout=1.0) returns when the thread has
\* ended or when the timeout has passed, whichever comes first.
StopJoin ==
    /\ pc = "join"
    /\ pc' = "idle"
    /\ UNCHANGED <<motionVars, running, control_thread, frame, result, loops,
                   timers, ncmds, obs, gimbalVars, speechVars, cameraVars, moreVars>>

-----------------------------------------------------------------------------
(* The gimbal: CameraManager.set_horizontal_angle, set_vertical_angle and  *)
(* joystick_control, called from the command path.                          *)

\* Mutant of ClampHorizontal: the upper limit is forgotten.
ClampHorizontalNoUpper(a) == Max(HorizontalMin, a)

\* angle = max(self.horizontal_min, min(self.horizontal_max, angle))
ClampHorizontal(a) == Max(HorizontalMin, Min(HorizontalMax, a))

\* angle = max(self.vertical_min, min(self.vertical_max, angle))
ClampVertical(a) == Max(VerticalMin, Min(VerticalMax, a))

\* A gimbal call that has not been made
NoGimbalCall == [op |-> "none", action |-> "none", value |-> 0, x |-> 0, y |-> 0]

\* A gimbal call that returns None (the two setters)
NoGimbalResult ==
    [kind |-> "none", has_horizontal |-> FALSE, horizontal_angle |-> 0,
     has_vertical |-> FALSE, vertical_angle |-> 0]

\* {"success": False, "error": ...}
GimbalError ==
    [kind |-> "error", has_horizontal |-> FALSE, horizontal_angle |-> 0,
     has_vertical |-> FALSE, vertical_angle |-> 0]

\* {"success": True, "horizontal_angle": h}
GimbalOkHorizontal(h) ==
    [kind |-> "ok", has_horizontal |-> TRUE, horizontal_angle |-> h,
     has_vertical |-> FALSE, vertical_angle |-> 0]

\* {"success": True, "vertical_angle": v}
GimbalOkVertical(v) ==
    [kind |-> "ok", has_horizontal |-> FALSE, horizontal_angle |-> 0,
     has_vertical |-> TRUE, vertical_angle |-> v]

\* {"success": True, "horizontal_angle": h, "vertical_angle": v}
GimbalOkBoth(h, v) ==
    [kind |-> "ok", has_horizontal |-> TRUE, horizontal_angle |-> h,
     has_vertical |-> TRUE, vertical_angle |-> v]

\* What a gimbal call made by the dispatcher does to the command path
GimbalCallBy(op, x, y) ==
    /\ pc = "idle"
    /\ ncmds' = ncmds + 1
    /\ frame' = [NoFrame EXCEPT !.op = op, !.x = x, !.y = y]
    /\ result' = NoResult
    /\ obs' = Dirty
    /\ UNCHANGED <<motionVars, running, control_thread, pc, loops, timers,
                   speechVars, cameraVars, moreVars>>

\* Mutant of GimbalJoystick: the vertical axis is not inverted.
GimbalJoystickNotInverted(x, y) ==
    /\ GimbalCallBy("gimbal", x, y)
    /\ horizontal_angle' =
          ClampHorizontal(horizontal_angle + ClampAxis(x) * DegreesPerUnit)
    /\ vertical_angle' =
          ClampVertical(vertical_angle + ClampAxis(y) * DegreesPerUnit)
    /\ gimbal_call' = [NoGimbalCall EXCEPT !.op = "joystick_control",
                                           !.x = x, !.y = y]
    /\ gimbal_result' = GimbalOkBoth(horizontal_angle', vertical_angle')

\* CameraManager.joystick_control(x, y): camera.py lines 317-332
GimbalJoystick(x, y) ==
    /\ GimbalCallBy("gimbal", x, y)
    /\ horizontal_angle' =
          ClampHorizontal(horizontal_angle + ClampAxis(x) * DegreesPerUnit)
    /\ vertical_angle' =
          ClampVertical(vertical_angle + (0 - ClampAxis(y)) * DegreesPerUnit)
    /\ gimbal_call' = [NoGimbalCall EXCEPT !.op = "joystick_control",
                                           !.x = x, !.y = y]
    /\ gimbal_result' = GimbalOkBoth(horizontal_angle', vertical_angle')

\* CameraManager.set_horizontal_angle(angle): camera.py lines 283-286
SetHorizontalAngle(angle) ==
    /\ GimbalCallBy("gimbal_set", 0, 0)
    /\ horizontal_angle' = ClampHorizontal(angle)
    /\ vertical_angle' = vertical_angle
    /\ gimbal_call' = [NoGimbalCall EXCEPT !.op = "set_horizontal_angle",
                                           !.value = angle]
    /\ gimbal_result' = NoGimbalResult

\* CameraManager.set_vertical_angle(angle): camera.py lines 298-301
SetVerticalAngle(angle) ==
    /\ GimbalCallBy("gimbal_set", 0, 0)
    /\ vertical_angle' = ClampVertical(angle)
    /\ horizontal_angle' = horizontal_angle
    /\ gimbal_call' = [NoGimbalCall EXCEPT !.op = "set_vertical_angle",
                                           !.value = angle]
    /\ gimbal_result' = NoGimbalResult

\* Mutant of GimbalControl: an unknown action is taken for "horizontal".
GimbalControlDefaultAxis(action, value) ==
    /\ GimbalCallBy("gimbal_control", 0, 0)
    /\ gimbal_call' = [NoGimbalCall EXCEPT !.op = "control",
                                           !.action = action, !.value = value]
    /\ IF action = "vertical"
         THEN /\ vertical_angle' = ClampVertical(value)
              /\ horizontal_angle' = horizontal_angle
              /\ gimbal_result' = GimbalOkVertical(vertical_angle')
         ELSE /\ horizontal_angle' = ClampHorizontal(value)
              /\ vertical_angle' = vertical_angle
              /\ gimbal_result' = GimbalOkHorizontal(horizontal_angle')

\* CameraManager.control(action, value): camera.py lines 262-274
GimbalControl(action, value) ==
    /\ GimbalCallBy("gimbal_control", 0, 0)
    /\ gimbal_call' = [NoGimbalCall EXCEPT !.op = "control",
                                           !.action = action, !.value = value]
    /\ IF action = "horizontal"
         THEN /\ horizontal_angle' = ClampHorizontal(value)
              /\ vertical_angle' = vertical_angle
              /\ gimbal_result' = GimbalOkHorizontal(horizontal_angle')
       ELSE IF action = "vertical"
         THEN /\ vertical_angle' = ClampVertical(value)
              /\ horizontal_angle' = horizontal_angle
              /\ gimbal_result' = GimbalOkVertical(vertical_angle')
       ELSE /\ UNCHANGED <<horizontal_angle, vertical_angle>>
            /\ gimbal_result' = GimbalError

-----------------------------------------------------------------------------
(* The speech engine: SpeechEngine of src/src/utils/speech.py.  The lock   *)
(* speech_lock guards the queue and the flag; a thread that needs the lock *)
(* waits until it is free.                                                  *)

\* Mutant of StartedSpeechThreads: a second speech loop is started.
StartedSpeechThreadsTwo(ok) == IF ok THEN {1, 2} ELSE {}

\* The speech-loop threads _init_tts_engine starts: one when pyttsx3
\* initialises (lines 62-64), none when it raises (lines 65-67)
StartedSpeechThreads(ok) == IF ok THEN {1} ELSE {}

\* _init_tts_engine: lines 45-67; ok is whether pyttsx3 initialises
InitTtsEngine(ok) ==
    /\ ~speech_ready
    /\ speech_ready' = TRUE
    /\ engine' = ok
    /\ speech_threads' =
          [t \in SpeechThreadIds |->
             IF t \in StartedSpeechThreads(ok)
               THEN [pc |-> "top", item |-> NoItem]
               ELSE speech_threads[t]]
    /\ UNCHANGED <<speaking, speech_queue, speech_lock, speakers, appended,
                   rendered, nspeak>>
    /\ UNCHANGED <<robotVars, gimbalVars, cameraVars, moreVars>>

\* line 75: with self.speech_lock, entered by the speech loop
SpeechLoopAcquire(t) ==
    /\ speech_threads[t].pc = "top"
    /\ speech_lock = Free
    /\ speech_lock' = <<"thread", t>>
    /\ speech_threads' = [speech_threads EXCEPT ![t].pc = "locked"]
    /\ UNCHANGED <<speech_ready, engine, speaking, speech_queue, speakers,
                   appended, rendered, nspeak>>
    /\ UNCHANGED <<robotVars, gimbalVars, cameraVars, moreVars>>

\* Mutant of SpeechLoopTake: the newest text is taken, not the oldest.
SpeechLoopTakeLast(t) ==
    /\ speech_threads[t].pc = "locked"
    /\ IF speech_queue # <<>>
         THEN /\ speech_threads' =
                   [speech_threads EXCEPT
                      ![t] = [pc |-> "say",
                              item |-> speech_queue[Len(speech_queue)]]]
              /\ speech_queue' = SubSeq(speech_queue, 1, Len(speech_queue) - 1)
              /\ speaking' = TRUE
              /\ speech_lock' = Free
         ELSE /\ speaking' = FALSE
              /\ speech_threads' = [speech_threads EXCEPT ![t].pc = "sleep"]
              /\ UNCHANGED <<speech_queue, speech_lock>>
    /\ UNCHANGED <<speech_ready, engine, speakers, appended, rendered, nspeak>>
    /\ UNCHANGED <<robotVars, gimbalVars, cameraVars, moreVars>>

\* lines 76-83, inside the lock: with a text queued, pop it, raise the flag
\* and leave the lock; with none, lower the flag and begin
\* time.sleep(0.1), still inside the with block
SpeechLoopTake(t) ==
    /\ speech_threads[t].pc = "locked"
    /\ IF speech_queue # <<>>
         THEN /\ speech_threads' =
                   [speech_threads EXCEPT
                      ![t] = [pc |-> "say", item |-> Head(speech_queue)]]
              /\ speech_queue' = Tail(speech_queue)
              /\ speaking' = TRUE
              /\ speech_lock' = Free
         ELSE /\ speaking' = FALSE
              /\ speech_threads' = [speech_threads EXCEPT ![t].pc = "sleep"]
              /\ UNCHANGED <<speech_queue, speech_lock>>
    /\ UNCHANGED <<speech_ready, engine, speakers, appended, rendered, nspeak>>
    /\ UNCHANGED <<robotVars, gimbalVars, cameraVars, moreVars>>

\* lines 83-84: time.sleep(0.1) ends, continue leaves the with block
SpeechLoopWake(t) ==
    /\ speech_threads[t].pc = "sleep"
    /\ speech_lock' = Free
    /\ speech_threads' = [speech_threads EXCEPT ![t].pc = "top"]
    /\ UNCHANGED <<speech_ready, engine, speaking, speech_queue, speakers,
                   appended, rendered, nspeak>>
    /\ UNCHANGED <<robotVars, gimbalVars, cameraVars, moreVars>>

\* langid.classify(text), line 92: the language of a text; "nihao" stands
\* for a text in Chinese characters
Lang(text) == IF text = "nihao" THEN "zh" ELSE "en"

\* What the engine is given for a text: the text, whether say and
\* runAndWait returned, the engine's rate at that time (tenths), and the
\* self.rate the loop read for this text
RenderedEntry(t, ok) ==
    [item |-> speech_threads[t].item, ok |-> ok, rate |-> engine_rate,
     configured |-> rate_for.rate, fresh |-> rate_for.fresh]

\* Mutant of SpeechLoopSetRate: the rate is set for Chinese texts only.
SpeechLoopSetRateChineseOnly(t) ==
    /\ speech_threads[t].pc = "say"
    /\ engine
    /\ rate_for.n # speech_threads[t].item.n
    /\ engine_rate' = IF Lang(speech_threads[t].item.text) = "zh"
                        THEN rate * ChineseRateNum
                        ELSE engine_rate
    /\ rate_for' = [n |-> speech_threads[t].item.n, rate |-> rate, fresh |-> TRUE]
    /\ UNCHANGED <<status, frame_marks, peer_connections, sessions, shutdown,
                   gimbal_threads, rate>>
    /\ UNCHANGED <<robotVars, gimbalVars, speechVars, cameraVars>>

\* lines 90-98: the language of the text is detected and the engine's rate
\* is set for this text: self.rate * 0.8 for Chinese, self.rate otherwise
SpeechLoopSetRate(t) ==
    /\ speech_threads[t].pc = "say"
    /\ engine
    /\ rate_for.n # speech_threads[t].item.n
    /\ engine_rate' = IF Lang(speech_threads[t].item.text) = "zh"
                        THEN rate * ChineseRateNum
                        ELSE rate * ChineseRateDen
    /\ rate_for' = [n |-> speech_threads[t].item.n, rate |-> rate, fresh |-> TRUE]
    /\ UNCHANGED <<status, frame_marks, peer_connections, sessions, shutdown,
                   gimbal_threads, rate>>
    /\ UNCHANGED <<robotVars, gimbalVars, speechVars, cameraVars>>

\* set_rate(r), lines 135-146: self.rate = r, and the engine's rate is set
\* to r when there is an engine
SetRate(r) ==
    /\ speech_ready
    /\ nspeak' = nspeak + 1
    /\ rate' = r
    /\ engine_rate' = IF engine THEN r * ChineseRateDen ELSE engine_rate
    /\ rate_for' = [rate_for EXCEPT !.fresh = ~engine /\ rate_for.fresh]
    /\ UNCHANGED <<speech_ready, engine, speaking, speech_queue, speech_lock,
                   speech_threads, speakers, appended, rendered>>
    /\ UNCHANGED <<status, frame_marks, peer_connections, sessions, shutdown,
                   gimbal_threads>>
    /\ UNCHANGED <<robotVars, gimbalVars, cameraVars>>

\* Mutant of SpeechLoopSay: an exception of the engine ends the thread.
SpeechLoopSayFatal(t, ok) ==
    /\ speech_threads[t].pc = "say"
    /\ ok => rate_for.n = speech_threads[t].item.n
    /\ rendered' = Append(rendered, RenderedEntry(t, ok))
    /\ speech_threads' =
          [speech_threads EXCEPT ![t].pc = IF ok THEN "finally" ELSE "dead"]
    /\ UNCHANGED <<speech_ready, engine, speaking, speech_queue, speech_lock,
                   speakers, appended, nspeak>>
    /\ UNCHANGED <<robotVars, gimbalVars, cameraVars, moreVars>>

\* lines 86-106: the text is handed to the engine, once its rate has been
\* set; say and runAndWait return (ok), or a call of the try block raises
\* and the exception is caught
SpeechLoopSay(t, ok) ==
    /\ speech_threads[t].pc = "say"
    /\ ok => rate_for.n = speech_threads[t].item.n
    /\ rendered' = Append(rendered, RenderedEntry(t, ok))
    /\ speech_threads' = [speech_threads EXCEPT ![t].pc = "finally"]
    /\ UNCHANGED <<speech_ready, engine, speaking, speech_queue, speech_lock,
                   speakers, appended, nspeak>>
    /\ UNCHANGED <<robotVars, gimbalVars, cameraVars, moreVars>>

\* lines 107-109: finally, with the lock: self.speaking = False
SpeechLoopFinally(t) ==
    /\ speech_threads[t].pc = "finally"
    /\ speech_lock = Free
    /\ speaking' = FALSE
    /\ speech_threads' = [speech_threads EXCEPT ![t] = [pc |-> "top", item |-> NoItem]]
    /\ UNCHANGED <<speech_ready, engine, speech_queue, speech_lock, speakers,
                   appended, rendered, nspeak>>
    /\ UNCHANGED <<robotVars, gimbalVars, cameraVars, moreVars>>

SpeechLoopStep(t) ==
    \/ SpeechLoopAcquire(t)
    \/ SpeechLoopTake(t)
    \/ SpeechLoopWake(t)
    \/ SpeechLoopSetRate(t)
    \/ \E ok \in BOOLEAN : SpeechLoopSay(t, ok)
    \/ SpeechLoopFinally(t)

\* The number of the next text brought by a speak call: one more than the
\* number of texts appended or waiting for the lock
NextItem ==
    Len(appended) + Cardinality({d \in SpeakerIds : speakers[d].pc = "append"}) + 1

\* Mutant of Speak: the empty text is queued like any other.
SpeakEmptyQueued(c, text) ==
    /\ speech_ready
    /\ speakers[c].pc = "idle"
    /\ nspeak' = nspeak + 1
    /\ speakers' = [speakers EXCEPT
                      ![c] = [pc |-> "append", op |-> "speak",
                              item |-> [text |-> text, by |-> c, n |-> NextItem],
                              ret |-> FALSE, during |-> FALSE]]
    /\ UNCHANGED <<speech_ready, engine, speaking, speech_queue, speech_lock,
                   speech_threads, appended, rendered>>
    /\ UNCHANGED <<robotVars, gimbalVars, cameraVars, moreVars>>

\* speak(text) called by thread c: lines 117-120, up to the lock
Speak(c, text) ==
    /\ speech_ready
    /\ speakers[c].pc = "idle"
    /\ nspeak' = nspeak + 1
    /\ speakers' = [speakers EXCEPT
                      ![c] = [pc |-> IF text = "" THEN "idle" ELSE "append",
                              op |-> "speak",
                              item |-> IF text = "" THEN NoItem
                                       ELSE [text |-> text, by |-> c, n |-> NextItem],
                              ret |-> FALSE, during |-> FALSE]]
    /\ UNCHANGED <<speech_ready, engine, speaking, speech_queue, speech_lock,
                   speech_threads, appended, rendered>>
    /\ UNCHANGED <<robotVars, gimbalVars, cameraVars, moreVars>>

\* lines 123-124: with self.speech_lock: self.speech_queue.append(text)
SpeakAppend(c) ==
    /\ speakers[c].pc = "append"
    /\ speech_lock = Free
    /\ speech_queue' = Append(speech_queue, speakers[c].item)
    /\ appended' = Append(appended, speakers[c].item)
    /\ speakers' = [speakers EXCEPT ![c].pc = "idle", ![c].item = NoItem]
    /\ UNCHANGED <<speech_ready, engine, speaking, speech_lock, speech_threads,
                   rendered, nspeak>>
    /\ UNCHANGED <<robotVars, gimbalVars, cameraVars, moreVars>>

\* is_speaking() called by thread c: line 132, up to the lock
IsSpeaking(c) ==
    /\ speech_ready
    /\ speakers[c].pc = "idle"
    /\ nspeak' = nspeak + 1
    /\ speakers' = [speakers EXCEPT
                      ![c] = [pc |-> "flag", op |-> "is_speaking",
                              item |-> NoItem, ret |-> FALSE, during |-> FALSE]]
    /\ UNCHANGED <<speech_ready, engine, speaking, speech_queue, speech_lock,
                   speech_threads, appended, rendered>>
    /\ UNCHANGED <<robotVars, gimbalVars, cameraVars, moreVars>>

\* A text has been popped and its finally block has not run yet.
ItemInHand == \E t \in SpeechThreadIds : speech_threads[t].pc \in {"say", "finally"}

\* lines 132-133: with self.speech_lock: return self.speaking
IsSpeakingReturn(c) ==
    /\ speakers[c].pc = "flag"
    /\ speech_lock = Free
    /\ speakers' = [speakers EXCEPT ![c].pc = "idle", ![c].ret = speaking,
                                    ![c].during = ItemInHand]
    /\ UNCHANGED <<speech_ready, engine, speaking, speech_queue, speech_lock,
                   speech_threads, appended, rendered, nspeak>>
    /\ UNCHANGED <<robotVars, gimbalVars, cameraVars, moreVars>>

SpeakerStep(c) == SpeakAppend(c) \/ IsSpeakingReturn(c)

-----------------------------------------------------------------------------
(* The camera: the frame path of CameraManager (src/src/vision/camera.py). *)
(* A frame is the number of the read that delivered it; None is 0.          *)

\* _init_camera: lines 100-122; ok is whether the device opens and the
\* test read delivers a frame
InitCamera(ok) ==
    /\ ~camera_ready
    /\ camera_ready' = TRUE
    /\ camera' = ok
    /\ captured' = IF ok THEN 1 ELSE 0
    /\ current_frame' = IF ok THEN 1 ELSE 0
    /\ UNCHANGED <<camera_running, camera_thread, camera_loops, viewer,
                   frame_result, ncam>>
    /\ UNCHANGED <<robotVars, gimbalVars, speechVars, moreVars>>

FreeCameraLoops == {i \in CameraLoopIds : camera_loops[i].pc = "unborn"}

\* CameraManager.start(): lines 135-151
CameraStart ==
    /\ camera_ready
    /\ (~camera_running /\ camera) => FreeCameraLoops # {}
    /\ ncam' = ncam + 1
    /\ IF camera_running \/ ~camera
         THEN UNCHANGED <<camera_running, camera_thread, camera_loops>>
         ELSE LET i == CHOOSE t \in FreeCameraLoops :
                                \A u \in FreeCameraLoops : t <= u
              IN  /\ camera_running' = TRUE
                  /\ camera_thread' = i
                  /\ camera_loops' = [camera_loops EXCEPT ![i].pc = "check"]
    /\ UNCHANGED <<camera_ready, camera, current_frame, viewer, frame_result,
                   captured>>
    /\ UNCHANGED <<robotVars, gimbalVars, speechVars, moreVars>>

\* CameraManager.stop(): lines 155-176.  The join has a timeout, so the
\* loop thread may still be running when the device is released.
CameraStop ==
    /\ camera_ready
    /\ ncam' = ncam + 1
    /\ IF camera_running
         THEN camera_running' = FALSE /\ camera' = FALSE
         ELSE UNCHANGED <<camera_running, camera>>
    /\ UNCHANGED <<camera_ready, current_frame, camera_thread, camera_loops,
                   viewer, frame_result, captured>>
    /\ UNCHANGED <<robotVars, gimbalVars, speechVars, moreVars>>

\* line 182: while self.running
CameraLoopCheck(i) ==
    /\ camera_loops[i].pc = "check"
    /\ camera_loops' = [camera_loops EXCEPT
                          ![i].pc = IF camera_running THEN "device" ELSE "done"]
    /\ UNCHANGED <<camera_ready, camera, camera_running, current_frame,
                   camera_thread, viewer, frame_result, captured, ncam>>
    /\ UNCHANGED <<robotVars, gimbalVars, speechVars, moreVars>>

\* line 183: if self.camera
CameraLoopDevice(i) ==
    /\ camera_loops[i].pc = "device"
    /\ camera_loops' = [camera_loops EXCEPT
                          ![i].pc = IF camera THEN "read" ELSE "sleep"]
    /\ UNCHANGED <<camera_ready, camera, camera_running, current_frame,
                   camera_thread, viewer, frame_result, captured, ncam>>
    /\ UNCHANGED <<robotVars, gimbalVars, speechVars, moreVars>>

\* What a read does to the history of the loop: "failed" after a read that
\* delivered no frame, "recovered" after a good read that followed one
ReadHistory(hist, ret) ==
    IF ~ret THEN "failed"
    ELSE IF hist \in {"failed", "recovered"} THEN "recovered"
    ELSE hist

\* Mutant of CameraLoopRead: a read that delivers no frame ends the loop.
CameraLoopReadFatal(i, ret) ==
    /\ camera_loops[i].pc = "call"
    /\ ret => (camera /\ captured < MaxFrames)
    /\ camera_loops' =
          [camera_loops EXCEPT
             ![i].pc = IF ret THEN "sleep" ELSE "done",
             ![i].hist = ReadHistory(camera_loops[i].hist, ret),
             ![i].late = camera_loops[i].late \/ ~camera]
    /\ IF ret
         THEN captured' = captured + 1 /\ current_frame' = captured + 1
         ELSE UNCHANGED <<current_frame, captured>>
    /\ UNCHANGED <<camera_ready, camera, camera_running, camera_thread,
                   viewer, frame_result, ncam>>
    /\ UNCHANGED <<robotVars, gimbalVars, speechVars, moreVars>>

\* line 185, the load of self.camera in self.camera.read(): the thread
\* takes the device object and enters its read.  When stop() has set
\* self.camera to None since line 183, None has no read: AttributeError,
\* and the thread ends.
CameraLoopLoad(i) ==
    /\ camera_loops[i].pc = "read"
    /\ camera_loops' = [camera_loops EXCEPT
                          ![i].pc = IF camera THEN "call" ELSE "done"]
    /\ UNCHANGED <<camera_ready, camera, camera_running, current_frame,
                   camera_thread, viewer, frame_result, captured, ncam>>
    /\ UNCHANGED <<robotVars, gimbalVars, speechVars, moreVars>>

\* lines 185-190: the read of the device object the thread holds returns,
\* and a good frame is stored.  When stop() has released the device since
\* the thread took it, the read ran on a released device (late) and
\* delivers no frame.
CameraLoopRead(i, ret) ==
    /\ camera_loops[i].pc = "call"
    /\ ret => (camera /\ captured < MaxFrames)
    /\ camera_loops' =
          [camera_loops EXCEPT
             ![i].pc = "sleep",
             ![i].hist = ReadHistory(camera_loops[i].hist, ret),
             ![i].late = camera_loops[i].late \/ ~camera]
    /\ IF ret
         THEN captured' = captured + 1 /\ current_frame' = captured + 1
         ELSE UNCHANGED <<current_frame, captured>>
    /\ UNCHANGED <<camera_ready, camera, camera_running, camera_thread,
                   viewer, frame_result, ncam>>
    /\ UNCHANGED <<robotVars, gimbalVars, speechVars, moreVars>>

\* line 193: time.sleep(1.0 / self.fps) ends
CameraLoopSleep(i) ==
    /\ camera_loops[i].pc = "sleep"
    /\ camera_loops' = [camera_loops EXCEPT ![i].pc = "check"]
    /\ UNCHANGED <<camera_ready, camera, camera_running, current_frame,
                   camera_thread, viewer, frame_result, captured, ncam>>
    /\ UNCHANGED <<robotVars, gimbalVars, speechVars, moreVars>>

CameraLoopStep(i) ==
    \/ CameraLoopCheck(i)
    \/ CameraLoopDevice(i)
    \/ CameraLoopLoad(i)
    \/ \E ret \in BOOLEAN : CameraLoopRead(i, ret)
    \/ CameraLoopSleep(i)

\* np.zeros((self.frame_height, self.frame_width, 3), dtype=np.uint8)
ZeroFrame(height, width) ==
    [kind |-> "zeros", frame |-> 0, height |-> height, width |-> width,
     latest |-> captured]

\* The value of self.current_frame as get_current_frame returns it
StoredFrame(f) ==
    IF f = 0
      THEN [kind |-> "null", frame |-> 0, height |-> 0, width |-> 0,
            latest |-> captured]
      ELSE [kind |-> "frame", frame |-> f, height |-> FrameHeight,
            width |-> FrameWidth, latest |-> captured]

\* Mutant of GetCurrentFrame: the test for None is left out.
GetCurrentFrameUnchecked ==
    /\ camera_ready
    /\ viewer.pc = "idle"
    /\ ncam' = ncam + 1
    /\ viewer' = [pc |-> "return"]
    /\ frame_result' = NoFrameResult
    /\ UNCHANGED <<camera_ready, camera, camera_running, current_frame,
                   camera_thread, camera_loops, captured>>
    /\ UNCHANGED <<robotVars, gimbalVars, speechVars, moreVars>>

\* get_current_frame(): lines 203-205, the test for None and the black
\* frame
GetCurrentFrame ==
    /\ camera_ready
    /\ viewer.pc = "idle"
    /\ ncam' = ncam + 1
    /\ IF current_frame = 0
         THEN /\ frame_result' = ZeroFrame(FrameHeight, FrameWidth)
              /\ viewer' = viewer
         ELSE /\ frame_result' = NoFrameResult
              /\ viewer' = [pc |-> "return"]
    /\ UNCHANGED <<camera_ready, camera, camera_running, current_frame,
                   camera_thread, camera_loops, captured>>
    /\ UNCHANGED <<robotVars, gimbalVars, speechVars, moreVars>>

\* line 207: return self.current_frame, a second load of the attribute
GetCurrentFrameReturn ==
    /\ viewer.pc = "return"
    /\ frame_result' = StoredFrame(current_frame)
    /\ viewer' = [pc |-> "idle"]
    /\ UNCHANGED <<camera_ready, camera, camera_running, current_frame,
                   camera_thread, camera_loops, captured, ncam>>
    /\ UNCHANGED <<robotVars, gimbalVars, speechVars, moreVars>>

-----------------------------------------------------------------------------
(* A control-loop thread: _control_loop and _apply_pid_control *)

\* line 106: while self.running
LoopCheck(i) ==
    /\ loops[i].pc = "check"
    /\ IF running
         THEN /\ loops' = [loops EXCEPT ![i] = [pc |-> "read", k |-> 1, spd |-> 0]]
              /\ obs' = IF obs.phase = "returned"
                          THEN [phase |-> "ticking", loop |-> i] ELSE obs
         ELSE /\ loops' = [loops EXCEPT ![i] = [pc |-> "done", k |-> 0, spd |-> 0]]
              /\ obs' = obs
    /\ UNCHANGED <<motionVars, running, control_thread, pc, frame, result,
                   timers, ncmds, gimbalVars, speechVars, cameraVars, moreVars>>

\* line 126, right-hand side: the load of self.current_speed
LoopRead(i) ==
    /\ loops[i].pc = "read"
    /\ loops' = [loops EXCEPT ![i].pc = "write", ![i].spd = current_speed]
    /\ UNCHANGED <<motionVars, running, control_thread, pc, frame, result,
                   timers, ncmds, obs, gimbalVars, speechVars, cameraVars, moreVars>>

\* What a write of motor k by loop i does to the history
ObsAfterWrite(i, k) ==
    IF obs.phase \in {"ticking", "ticked"} /\ obs.loop # i THEN Dirty
    ELSE IF obs.phase = "ticking" /\ k = NumMotors
      THEN [phase |-> "ticked", loop |-> i]
    ELSE obs

\* line 126: motor["speed"] = <loaded speed> * motor["direction"]
LoopWrite(i) ==
    /\ loops[i].pc = "write"
    /\ LET k == loops[i].k
       IN  /\ motors' = [motors EXCEPT
                           ![k].speed = loops[i].spd * motors[k].direction]
           /\ loops' = [loops EXCEPT ![i] =
                          IF k = NumMotors
                            THEN [pc |-> "check", k |-> 0, spd |-> 0]
                            ELSE [pc |-> "read", k |-> k + 1, spd |-> 0]]
           /\ obs' = ObsAfterWrite(i, k)
    /\ UNCHANGED <<current_direction, current_speed, running, control_thread,
                   pc, frame, result, timers, ncmds, gimbalVars, speechVars, cameraVars, moreVars>>

-----------------------------------------------------------------------------
(* An auto-stop thread: stop_after_duration, lines 182-184 *)

\* time.sleep(duration) ends
TimerWake(j) ==
    /\ timers[j].pc = "sleep"
    /\ timers' = [timers EXCEPT ![j] = [pc |-> "stop_motors", k |-> 1]]
    /\ UNCHANGED <<motionVars, running, control_thread, pc, frame, result,
                   loops, ncmds, obs, gimbalVars, speechVars, cameraVars, moreVars>>

\* self._stop_motors() run by the timer thread
TimerStopMotors(j) ==
    /\ timers[j].pc = "stop_motors"
    /\ StopMotorsStep(timers[j].k)
    /\ timers' = [timers EXCEPT ![j] =
                    IF timers[j].k = StopMotorsLast
                      THEN [pc |-> "done", k |-> 0]
                      ELSE [pc |-> "stop_motors", k |-> timers[j].k + 1]]
    /\ obs' = Dirty
    /\ UNCHANGED <<running, control_thread, pc, frame, result, loops, ncmds,
                   gimbalVars, speechVars, cameraVars, moreVars>>

-----------------------------------------------------------------------------
(* The threads *)

CallerStep ==
    \/ MoveSetDirection
    \/ MoveSetSpeed
    \/ SetMotorDirection
    \/ CallerStopMotors
    \/ MoveReturn
    \/ StopJoin

LoopStep(i) == LoopCheck(i) \/ LoopRead(i) \/ LoopWrite(i)

TimerStep(j) == TimerWake(j) \/ TimerStopMotors(j)

-----------------------------------------------------------------------------
(* Spec: every interleaving of the command path, the control loops and the *)
(* auto-stop timers, for a few commands.                                    *)

DirInputs == {"forward", "left", "stop", "up"}

SpeedInputs == {1500}

DurationInputs == {None, "t"}

JoyInputs == {<<0, 0>>, <<1000, 1000>>}

GimbalInputs == {<<1000, 1000>>}

Command ==
    \/ \E d \in DirInputs, s \in SpeedInputs, dur \in DurationInputs :
          Move(d, s, dur)
    \/ \E p \in JoyInputs : JoystickControl(p[1], p[2])
    \/ \E p \in GimbalInputs : GimbalJoystick(p[1], p[2])
    \/ Start
    \/ Stop

Next ==
    \/ ncmds < MaxCmds /\ Command
    \/ CallerStep
    \/ \E i \in LoopIds : LoopStep(i)
    \/ \E j \in TimerIds : TimerStep(j)

Spec == Init /\ [][Next]_vars

-----------------------------------------------------------------------------
(* SpecSeq: the same operations, none overlapping another: a call, a tick  *)
(* of a control loop and the firing of a timer each run to their end       *)
(* before another thread takes a step.  Inputs cover every direction, the  *)
(* speeds below, inside and above the range, and the joystick plane.        *)

CallerAtRest == pc = "idle"

LoopAtRest(i) == loops[i].pc \in {"unborn", "check", "done"}

TimerAtRest(j) == timers[j].pc \in {"unborn", "sleep", "done"}

OthersAtRest(kind, id) ==
    /\ kind # "caller" => CallerAtRest
    /\ \A i \in LoopIds : (kind # "loop" \/ i # id) => LoopAtRest(i)
    /\ \A j \in TimerIds : (kind # "timer" \/ j # id) => TimerAtRest(j)

SeqDirInputs == Directions \cup {"up"}

SeqSpeedInputs == {-500, 0, 600, 1500}

SeqAxisInputs == {-1500, -1000, -70, 0, 70, 100, 1000}

SeqCommand ==
    \/ \E d \in SeqDirInputs, s \in SeqSpeedInputs, dur \in DurationInputs :
          Move(d, s, dur)
    \/ \E x \in SeqAxisInputs, y \in SeqAxisInputs : JoystickControl(x, y)
    \/ \E p \in GimbalInputs : GimbalJoystick(p[1], p[2])
    \/ Start
    \/ Stop

NextSeq ==
    \/ ncmds < MaxSeqCmds /\ OthersAtRest("caller", 0) /\ SeqCommand
    \/ OthersAtRest("caller", 0) /\ CallerStep
    \/ \E i \in LoopIds : OthersAtRest("loop", i) /\ LoopStep(i)
    \/ \E j \in TimerIds : OthersAtRest("timer", j) /\ TimerStep(j)

SpecSeq == Init /\ [][NextSeq]_vars

-----------------------------------------------------------------------------
(* SpecTimed: every interleaving again, for longer runs of fewer commands: *)
(* start, stop, and a forward move with or without a duration.              *)

TimedCommand ==
    \/ \E dur \in DurationInputs : Move("forward", DefaultSpeed, dur)
    \/ Start
    \/ Stop

NextTimed ==
    \/ ncmds < MaxTimedCmds /\ TimedCommand
    \/ CallerStep
    \/ \E i \in LoopIds : LoopStep(i)
    \/ \E j \in TimerIds : TimerStep(j)

SpecTimed == Init /\ [][NextTimed]_vars

-----------------------------------------------------------------------------
(* SpecGimbal: the gimbal calls alone, with angles and joystick values     *)
(* below, inside and above their ranges.                                    *)

GimbalAngleInputs ==
    {-200000, -5000, 34000, 35000, 60500, 85000, 125000, 126000, 300000}

GimbalAxisInputs == {-1500, -1000, -300, 0, 400, 1000, 1500}

GimbalActionInputs == {"horizontal", "vertical", "zoom"}

GimbalCommand ==
    \/ \E x \in GimbalAxisInputs, y \in GimbalAxisInputs : GimbalJoystick(x, y)
    \/ \E a \in GimbalAngleInputs : SetHorizontalAngle(a)
    \/ \E a \in GimbalAngleInputs : SetVerticalAngle(a)
    \/ \E act \in GimbalActionInputs, a \in GimbalAngleInputs :
          GimbalControl(act, a)

NextGimbal == ncmds < MaxGimbalCmds /\ GimbalCommand

SpecGimbal == Init /\ [][NextGimbal]_vars

-----------------------------------------------------------------------------
(* SpecSpeech: the speech engine with its loop thread and concurrent        *)
(* callers of speak and is_speaking.                                        *)

TextInputs == {"", "hi", "bye"}

SpeechCall(c) ==
    \/ \E text \in TextInputs : Speak(c, text)
    \/ IsSpeaking(c)

NextSpeech ==
    \/ \E ok \in BOOLEAN : InitTtsEngine(ok)
    \/ \E c \in SpeakerIds : nspeak < MaxSpeechCalls /\ SpeechCall(c)
    \/ \E c \in SpeakerIds : SpeakerStep(c)
    \/ \E t \in SpeechThreadIds : SpeechLoopStep(t)

SpecSpeech == Init /\ [][NextSpeech]_vars

\* The same engine under fair scheduling: the constructor runs to its end,
\* and every thread that can take a step (a caller at its lock, the daemon
\* speech thread anywhere in its loop) takes one in the end.
SpeechFairness ==
    /\ WF_vars(\E ok \in BOOLEAN : InitTtsEngine(ok))
    /\ \A c \in SpeakerIds : WF_vars(SpeakerStep(c))
    /\ \A t \in SpeechThreadIds : WF_vars(SpeechLoopStep(t))

SpecSpeechFair == SpecSpeech /\ SpeechFairness

-----------------------------------------------------------------------------
(* SpecCamera: the camera loop, start and stop, and a reader of frames.     *)

CameraCall ==
    \/ CameraStart
    \/ CameraStop
    \/ GetCurrentFrame

NextCamera ==
    \/ \E ok \in BOOLEAN : InitCamera(ok)
    \/ ncam < MaxCameraCalls /\ CameraCall
    \/ GetCurrentFrameReturn
    \/ \E i \in CameraLoopIds : CameraLoopStep(i)

SpecCamera == Init /\ [][NextCamera]_vars

-----------------------------------------------------------------------------
(* SpecReader: the camera with a reader that writes into the frame it was  *)
(* handed (an overlay drawn in place, say).  A frame from the device is    *)
(* one array object, known by its number.                                   *)

\* The reader writes into the array get_current_frame returned.  The black
\* frame of line 205 is a new array at every call; a stored frame is the
\* object self.current_frame refers to (line 207).
ReaderWrite ==
    /\ viewer.pc = "idle"
    /\ frame_result.kind = "frame"
    /\ frame_result.frame \notin frame_marks
    /\ frame_marks' = frame_marks \cup {frame_result.frame}
    /\ UNCHANGED <<status, peer_connections, sessions, shutdown,
                   gimbal_threads, rate, engine_rate, rate_for>>
    /\ UNCHANGED <<robotVars, gimbalVars, speechVars, cameraVars>>

NextReader == NextCamera \/ ReaderWrite

SpecReader == Init /\ [][NextReader]_vars

-----------------------------------------------------------------------------
(* SpecStatus: the motion controller with a caller of get_status.  The     *)
(* dict get_status returns holds the values of running, direction and      *)
(* speed, and a reference to the dict self.motors.                          *)

\* get_status(): robot.py lines 264-269
GetStatus ==
    /\ ncmds' = ncmds + 1
    /\ status' = [kind |-> "ok", running |-> running,
                  direction |-> current_direction, speed |-> current_speed,
                  motors |-> "self.motors", then |-> motors]
    /\ UNCHANGED <<motionVars, running, control_thread, pc, frame, result,
                   loops, timers, obs>>
    /\ UNCHANGED <<frame_marks, peer_connections, sessions, shutdown,
                   gimbal_threads, rate, engine_rate, rate_for>>
    /\ UNCHANGED <<gimbalVars, speechVars, cameraVars>>

\* The per-wheel entries a holder of the status reads from it now
StatusMotors == IF status.motors = "self.motors" THEN motors ELSE status.then

StatusCommand ==
    \/ \E dur \in DurationInputs : Move("backward", DefaultSpeed, dur)
    \/ Start
    \/ Stop
    \/ GetStatus

NextStatus ==
    \/ ncmds < MaxStatusCmds /\ StatusCommand
    \/ CallerStep
    \/ \E i \in LoopIds : LoopStep(i)
    \/ \E j \in TimerIds : TimerStep(j)

SpecStatus == Init /\ [][NextStatus]_vars

-----------------------------------------------------------------------------
(* SpecSession: the WebRTC sessions of CameraManager.  process_offer is a  *)
(* coroutine: between its awaits other offers and the state-change hooks   *)
(* of any session run.                                                      *)

FreeSessions == {s \in SessionIds : sessions[s].state = "unborn"}

SessionUnchanged ==
    /\ UNCHANGED <<status, frame_marks, shutdown, gimbal_threads, rate,
                   engine_rate, rate_for>>
    /\ UNCHANGED <<robotVars, gimbalVars, speechVars, cameraVars>>

\* process_offer: lines 221-231, up to the first await: a new
\* RTCPeerConnection is added to the set, the hook registered, the track
\* added
ProcessOffer ==
    /\ FreeSessions # {}
    /\ LET s == CHOOSE t \in FreeSessions : \A u \in FreeSessions : t <= u
       IN  /\ sessions' = [sessions EXCEPT ![s] = [state |-> "new", neg |-> "remote"]]
           /\ peer_connections' = peer_connections \cup {s}
    /\ SessionUnchanged

\* The stage of the handshake after stage neg: setRemoteDescription (line
\* 234), createAnswer (239), setLocalDescription (240), the return (245)
NextStage(neg) ==
    CASE neg = "remote" -> "answer"
      [] neg = "answer" -> "local"
      [] neg = "local"  -> "done"

\* One await of process_offer returns (ok) or raises.  The coroutine has
\* no try block: an exception leaves process_offer at once.
Negotiate(s, ok) ==
    /\ sessions[s].neg \in {"remote", "answer", "local"}
    /\ sessions' = [sessions EXCEPT
                      ![s].neg = IF ok THEN NextStage(sessions[s].neg) ELSE "raised"]
    /\ UNCHANGED peer_connections
    /\ SessionUnchanged

SessionStates == {"connecting", "connected", "failed", "closed"}

\* Mutant of ConnectionStateChange: a failure empties the active set.
ConnectionStateChangeClearsAll(s, st) ==
    /\ sessions[s].state \notin {"unborn", "closed"}
    /\ st # sessions[s].state
    /\ sessions' = [sessions EXCEPT ![s].state = st]
    /\ peer_connections' =
          IF st = "failed" \/ st = "closed" THEN {} ELSE peer_connections
    /\ SessionUnchanged

\* on_connectionstatechange of session s: lines 224-228
ConnectionStateChange(s, st) ==
    /\ sessions[s].state \notin {"unborn", "closed"}
    /\ st # sessions[s].state
    /\ sessions' = [sessions EXCEPT ![s].state = st]
    /\ peer_connections' =
          IF st = "failed" \/ st = "closed"
            THEN peer_connections \ {s} ELSE peer_connections
    /\ SessionUnchanged

NextSession ==
    \/ ProcessOffer
    \/ \E s \in SessionIds, ok \in BOOLEAN : Negotiate(s, ok)
    \/ \E s \in SessionIds, st \in SessionStates : ConnectionStateChange(s, st)

SpecSession == Init /\ [][NextSession]_vars

-----------------------------------------------------------------------------
(* SpecShutdown: the speech engine, and the application asked to stop.     *)

\* AISmartCar.stop(): main.py lines 86-101, on an application whose motion
\* controller and camera are not running: robot.stop() and camera.stop()
\* return at their first test, ai_assistant.stop() stops the assistant's
\* own thread.  Nothing is called on the speech engine, which has no stop
\* method.
AppStop ==
    /\ ~shutdown
    /\ ~running /\ ~camera_running
    /\ shutdown' = TRUE
    /\ UNCHANGED <<status, frame_marks, peer_connections, sessions,
                   gimbal_threads, rate, engine_rate, rate_for>>
    /\ UNCHANGED <<robotVars, gimbalVars, speechVars, cameraVars>>

NextShutdown == NextSpeech \/ AppStop

SpecShutdown == Init /\ [][NextShutdown]_vars

-----------------------------------------------------------------------------
(* SpecGimbalRace: gimbal joystick commands handled by concurrent handler  *)
(* threads, one command each.  CameraManager holds no lock: the load of an *)
(* angle and its store are separate steps.                                  *)

GimbalRaceUnchanged ==
    /\ UNCHANGED <<gimbal_call, gimbal_result>>
    /\ UNCHANGED <<status, frame_marks, peer_connections, sessions, shutdown,
                   rate, engine_rate, rate_for>>
    /\ UNCHANGED <<robotVars, speechVars, cameraVars>>

\* joystick_control(x, y) entered by thread g: lines 317-322
GimbalEnter(g, x, y) ==
    /\ gimbal_threads[g].pc = "idle"
    /\ gimbal_threads' =
          [gimbal_threads EXCEPT
             ![g] = [pc |-> "load_h", x |-> ClampAxis(x), y |-> ClampAxis(y),
                     h |-> 0, v |-> 0]]
    /\ UNCHANGED <<horizontal_angle, vertical_angle>>
    /\ GimbalRaceUnchanged

\* line 325, the argument: self.horizontal_angle + horizontal_delta
GimbalLoadHorizontal(g) ==
    /\ gimbal_threads[g].pc = "load_h"
    /\ gimbal_threads' =
          [gimbal_threads EXCEPT
             ![g].pc = "store_h",
             ![g].h = horizontal_angle + gimbal_threads[g].x * DegreesPerUnit]
    /\ UNCHANGED <<horizontal_angle, vertical_angle>>
    /\ GimbalRaceUnchanged

\* line 325, the call: set_horizontal_angle clamps and stores (283-286)
GimbalStoreHorizontal(g) ==
    /\ gimbal_threads[g].pc = "store_h"
    /\ horizontal_angle' = ClampHorizontal(gimbal_threads[g].h)
    /\ gimbal_threads' = [gimbal_threads EXCEPT ![g].pc = "load_v"]
    /\ UNCHANGED vertical_angle
    /\ GimbalRaceUnchanged

\* line 326, the argument: self.vertical_angle + vertical_delta
GimbalLoadVertical(g) ==
    /\ gimbal_threads[g].pc = "load_v"
    /\ gimbal_threads' =
          [gimbal_threads EXCEPT
             ![g].pc = "store_v",
             ![g].v = vertical_angle + (0 - gimbal_threads[g].y) * DegreesPerUnit]
    /\ UNCHANGED <<horizontal_angle, vertical_angle>>
    /\ GimbalRaceUnchanged

\* line 326, the call: set_vertical_angle clamps and stores (298-301)
GimbalStoreVertical(g) ==
    /\ gimbal_threads[g].pc = "store_v"
    /\ vertical_angle' = ClampVertical(gimbal_threads[g].v)
    /\ gimbal_threads' = [gimbal_threads EXCEPT ![g].pc = "done"]
    /\ UNCHANGED horizontal_angle
    /\ GimbalRaceUnchanged

GimbalThreadStep(g) ==
    \/ GimbalLoadHorizontal(g)
    \/ GimbalStoreHorizontal(g)
    \/ GimbalLoadVertical(g)
    \/ GimbalStoreVertical(g)

RaceAxisInputs == {-1000, 400, 1000}

NextGimbalRace ==
    \/ \E g \in GimbalThreadIds, x \in RaceAxisInputs, y \in RaceAxisInputs :
          GimbalEnter(g, x, y)
    \/ \E g \in GimbalThreadIds : GimbalThreadStep(g)

SpecGimbalRace == Init /\ [][NextGimbalRace]_vars

(***************************************************************************)
(* The speech engine with texts of two languages and set_rate calls.       *)
(***************************************************************************)
RateTextInputs == {"hi", "nihao"}

RateInputs == {200}

\* One thread calls speak and set_rate, beside the speech loop
RateCaller == 1

RateCall ==
    \/ \E text \in RateTextInputs : Speak(RateCaller, text)
    \/ \E r \in RateInputs : SetRate(r)

NextRate ==
    \/ \E ok \in BOOLEAN : InitTtsEngine(ok)
    \/ nspeak < MaxRateCalls /\ RateCall
    \/ SpeakAppend(RateCaller)
    \/ \E t \in SpeechThreadIds : SpeechLoopStep(t)

SpecRate == Init /\ [][NextRate]_vars

-----------------------------------------------------------------------------
(* Properties *)

\* The last call was a move (direct or through the joystick) that returned
\* success, and since it began no auto-stop thread has written anything and
\* no other call has begun.
MoveSettled == obs.phase \in {"returned", "ticking", "ticked"}

WheelOutputs == [m \in MotorIds |-> motors[m].speed]

AllOutputsZero == \A m \in MotorIds : motors[m].speed = 0

\* C1: once a later move(d2, s2) with d2 other than stop and no duration
\* has returned, and no further call is made, direction stays d2 and speed
\* stays s2, whatever auto-stop threads of earlier calls do.
C1_StaleTimerHarmless ==
    (pc = "idle" /\ result.kind = "ok" /\ result.direction # "stop"
       /\ result.duration = None)
    => (current_direction = result.direction /\ current_speed = result.speed)

\* C2 as stated: the stored speed lies in [0,1] in every state, and after
\* a move the reported speed and the stored speed are both the clamped
\* input, for every direction.
C2_StoredIsClampedInput ==
    /\ current_speed \in 0..Unit
    /\ MoveSettled =>
         /\ result.speed = Max(0, Min(Unit, frame.speed_in))
         /\ current_speed = Max(0, Min(Unit, frame.speed_in))

\* C2 amended: the stored speed lies in [0,1] in every state; after a move
\* the reported speed is the clamped input; the stored speed is the clamped
\* input when the direction is not stop, and 0 when it is stop.
C2_SpeedClamp ==
    /\ current_speed \in 0..Unit
    /\ MoveSettled =>
         /\ result.speed = Max(0, Min(Unit, frame.speed_in))
         /\ current_speed = IF result.direction = "stop" THEN 0
                            ELSE Max(0, Min(Unit, frame.speed_in))

\* C2 witness: a move above the range has returned and 1.0 is stored.
C2_Witness ==
    /\ MoveSettled
    /\ frame.op = "move"
    /\ frame.speed_in > Unit
    /\ result.direction = "backward"
    /\ current_speed = Unit

\* C3: in every state, direction stop implies stored speed 0 and all four
\* wheel outputs 0.
C3_StopImpliesZero ==
    current_direction = "stop" => (current_speed = 0 /\ AllOutputsZero)

\* The clamped joystick vector lies inside the deadzone: x^2 + y^2 < 0.1^2.
InDeadzone(x, y) ==
    LET cx == IF x > Unit THEN Unit ELSE IF x < -Unit THEN -Unit ELSE x
        cy == IF y > Unit THEN Unit ELSE IF y < -Unit THEN -Unit ELSE y
    IN  cx * cx + cy * cy < DeadZone * DeadZone

JoystickSettled == MoveSettled /\ frame.op = "joystick"

\* C4 as stated: after joystick_control inside the deadzone the returned
\* status reports stop and speed 0, and the state is stop with speed 0.
C4_DeadzoneReportsZero ==
    (JoystickSettled /\ InDeadzone(frame.x, frame.y))
    => /\ result.direction = "stop"
       /\ result.speed = 0
       /\ current_direction = "stop"
       /\ current_speed = 0

\* C4 amended: after joystick_control inside the deadzone the returned
\* status reports stop with the default speed 0.5 of the delegated
\* move("stop"), no duration, and the state is stop with speed 0.
C4_Deadzone ==
    (JoystickSettled /\ InDeadzone(frame.x, frame.y))
    => /\ result.kind = "ok"
       /\ result.direction = "stop"
       /\ result.speed = DefaultSpeed
       /\ result.duration = None
       /\ current_direction = "stop"
       /\ current_speed = 0

\* C4 witness: a joystick call off centre but inside the deadzone returned.
C4_Witness ==
    /\ JoystickSettled
    /\ frame.x = 70 /\ frame.y = -70
    /\ current_direction = "stop"
    /\ result.speed = DefaultSpeed

\* The joystick vector of the call in progress or last finished, clamped.
JoyX == IF frame.x > Unit THEN Unit ELSE IF frame.x < -Unit THEN -Unit ELSE frame.x

JoyY == IF frame.y > Unit THEN Unit ELSE IF frame.y < -Unit THEN -Unit ELSE frame.y

\* The direction whose angle interval holds the vector (x, y), stated on
\* the coordinates: [-pi/4, pi/4] is x > 0 and |y| <= x; (pi/4, 3pi/4] is
\* y > 0 and -y <= x < y; [-3pi/4, -pi/4) is y < 0 and y <= x < -y.
SectorOf(x, y) ==
    IF x > 0 /\ y <= x /\ -y <= x THEN "right"
    ELSE IF y > 0 /\ -y <= x /\ x < y THEN "forward"
    ELSE IF y < 0 /\ y <= x /\ x < -y THEN "backward"
    ELSE "left"

JoystickOutside == frame.op = "joystick" /\ ~InDeadzone(frame.x, frame.y)

\* C5: outside the deadzone joystick_control selects the direction of the
\* angle's interval, boundaries included as stated: the call hands that
\* direction to move, reports it, and it is the direction stored when the
\* call has returned.
C5_JoystickDirection ==
    JoystickOutside =>
      /\ frame.direction = SectorOf(JoyX, JoyY)
      /\ (JoyX > 0 /\ JoyY = JoyX) => frame.direction = "right"
      /\ (JoyX > 0 /\ JoyY = -JoyX) => frame.direction = "right"
      /\ (JoyX < 0 /\ JoyY = -JoyX) => frame.direction = "forward"
      /\ (JoyX < 0 /\ JoyY = JoyX) => frame.direction = "backward"
      /\ MoveSettled => /\ result.direction = frame.direction
                        /\ current_direction = frame.direction

\* C5 witness: the joystick at angle 3pi/4 has resolved to forward.
C5_Witness ==
    /\ JoystickSettled
    /\ frame.x = -1000 /\ frame.y = 1000
    /\ current_direction = "forward"

\* m is the clamped magnitude of the joystick vector: the integer with
\* m^2 <= x^2 + y^2 < (m+1)^2, capped at 1.0.
IsMagnitude(m) ==
    LET n == JoyX * JoyX + JoyY * JoyY
    IN  \/ m = Unit /\ n >= Unit * Unit
        \/ m >= 0 /\ m < Unit /\ m * m <= n /\ n < (m + 1) * (m + 1)

\* s is 0.7 times m, rounded down to the thousandth.
IsTurnScaled(s, m) == 10 * s <= 7 * m /\ 7 * m < 10 * s + 10

\* The magnitudes whose turn-scaled value can be s.
TurnSources(s) == ((10 * s) \div 7 - 2)..((10 * s) \div 7 + 2)

\* C6: joystick_control hands move 0.7 times the magnitude exactly when
\* the direction is left or right and the magnitude itself for forward and
\* backward; a direct move stores and reports its clamped speed unscaled.
C6_TurnScaling ==
    /\ JoystickOutside =>
         /\ IF frame.direction \in {"left", "right"}
              THEN \E m \in TurnSources(frame.speed_in) :
                      IsMagnitude(m) /\ IsTurnScaled(frame.speed_in, m)
              ELSE IsMagnitude(frame.speed_in)
         /\ MoveSettled => (result.speed = frame.speed_in
                              /\ current_speed = frame.speed_in)
    /\ (MoveSettled /\ frame.op = "move" /\ frame.direction \in {"left", "right"}
          /\ frame.speed_in \in 0..Unit)
       => (result.speed = frame.speed_in /\ current_speed = frame.speed_in)

\* C6 witness: a full-deflection joystick turn has stored 0.7.
C6_Witness ==
    /\ JoystickSettled
    /\ frame.x = -1000 /\ frame.y = 0
    /\ current_direction = "left"
    /\ current_speed = 700

\* The wheel table as the claim states it, by motor in dict order.
TableRow(d) ==
    IF d = "forward" THEN <<1, 1, 1, 1>>
    ELSE IF d = "backward" THEN <<-1, -1, -1, -1>>
    ELSE IF d = "left" THEN <<-1, 1, -1, 1>>
    ELSE IF d = "right" THEN <<1, -1, 1, -1>>
    ELSE <<0, 0, 0, 0>>

C8_InvalidDirection ==
    [][(ncmds' = ncmds + 1 /\ frame'.op = "move"
          /\ frame'.direction \notin Directions)
       => (/\ result' = ErrorResult
           /\ pc' = "idle"
           /\ UNCHANGED <<motionVars, timers, running, loops>>)]_vars

\* C8 witness: move("up", ..., duration) has returned the failure result
\* and no auto-stop thread exists.
C8_Witness ==
    /\ result.kind = "error"
    /\ frame.direction = "up" /\ frame.duration # None
    /\ \A j \in TimerIds : timers[j].pc = "unborn"
    /\ current_direction = "stop" /\ motors = InitMotors

Stopped == current_direction = "stop" /\ current_speed = 0 /\ AllOutputsZero

\* C9: when a timed move in a direction other than stop was the last call
\* and every thread has run to its end (the auto-stop threads have finished
\* and no control loop is left), the controller is stopped: direction stop,
\* speed 0 and all wheel outputs 0.
C9_AutoStopFinal ==
    (/\ pc = "idle"
     /\ result.kind = "ok" /\ result.duration # None
     /\ result.direction # "stop"
     /\ \A j \in TimerIds : timers[j].pc \in {"unborn", "done"}
     /\ \A i \in LoopIds : loops[i].pc \in {"unborn", "done"})
    => Stopped

TimerPending == \E j \in TimerIds : timers[j].pc = "sleep"

\* A timed move that has reached line 180 can return at once, with the
\* result and with its auto-stop thread asleep.
C10_ReturnNotBlocked ==
    pc = "m180" =>
      ENABLED (/\ MoveReturn
               /\ pc' = "idle"
               /\ result'.kind = "ok"
               /\ frame.duration # None =>
                    \E j \in TimerIds : timers'[j].pc = "sleep")

\* While an auto-stop is pending the command path accepts a move, a
\* joystick and a gimbal command.
C10_Accepted ==
    (pc = "idle" /\ TimerPending)
    => /\ ENABLED Move("forward", DefaultSpeed, None)
       /\ ENABLED JoystickControl(Unit, 0)
       /\ ENABLED GimbalJoystick(Unit, Unit)

\* A move or joystick command that returns while an auto-stop is pending
\* has been applied to direction and speed, and a gimbal command to the
\* angles.
C10_Applied ==
    /\ (MoveSettled /\ TimerPending)
       => /\ current_direction = result.direction
          /\ current_speed = IF result.direction = "stop" THEN 0 ELSE result.speed
    /\ (frame.op = "gimbal" /\ TimerPending /\ ncmds = 2)
       => (horizontal_angle # HorizontalInit /\ vertical_angle # VerticalInit)

\* C10: timed actions do not block the command path: the three statements
\* above hold in every state.
C10_NonBlocking == C10_ReturnNotBlocked /\ C10_Accepted /\ C10_Applied

\* C10 witness: a second move has returned and been applied while the
\* auto-stop of the first still sleeps.
C10_Witness ==
    /\ TimerPending
    /\ MoveSettled
    /\ ncmds = 2
    /\ result.duration = None
    /\ current_direction = "left"

\* C11: once a stop() that found the controller running has returned and
\* no further call is made, direction is stop, speed is 0 and all four wheel
\* outputs are 0, whatever a control-loop tick in progress does.
C11_StopSafe ==
    (pc = "idle" /\ frame.op = "stop" /\ frame.ret = "join") => Stopped

\* C12: in every state the horizontal angle lies in [35, 125] and the
\* vertical angle in [-5, 85], whatever setters, control and joystick calls
\* have been made and with whatever values; the initial angles lie inside.
C12_GimbalRange ==
    /\ horizontal_angle >= 35000 /\ horizontal_angle <= 125000
    /\ vertical_angle >= -5000 /\ vertical_angle <= 85000

\* C12 witness: control("horizontal", 300) after another call has left the
\* horizontal angle at its upper limit.
C12_Witness ==
    /\ gimbal_call.op = "control"
    /\ gimbal_call.action = "horizontal"
    /\ gimbal_call.value = 300000
    /\ horizontal_angle = 125000
    /\ ncmds >= 2

\* C13: a gimbal joystick_control(x, y) sets the horizontal angle to the
\* old one plus 5 times x clamped to [-1, 1], and the vertical angle to the
\* old one minus 5 times y clamped to [-1, 1], each clamped to the range of
\* its axis, and returns the two stored angles.
C13_GimbalJoystick ==
    [][(ncmds' = ncmds + 1 /\ gimbal_call'.op = "joystick_control") =>
         LET x == gimbal_call'.x
             y == gimbal_call'.y
             cx == IF x > 1000 THEN 1000 ELSE IF x < -1000 THEN -1000 ELSE x
             cy == IF y > 1000 THEN 1000 ELSE IF y < -1000 THEN -1000 ELSE y
             h == horizontal_angle + 5 * cx
             v == vertical_angle - 5 * cy
         IN  /\ horizontal_angle' =
                   (IF h > 125000 THEN 125000 ELSE IF h < 35000 THEN 35000 ELSE h)
             /\ vertical_angle' =
                   (IF v > 85000 THEN 85000 ELSE IF v < -5000 THEN -5000 ELSE v)
             /\ gimbal_result'.kind = "ok"
             /\ gimbal_result'.has_horizontal /\ gimbal_result'.has_vertical
             /\ gimbal_result'.horizontal_angle = horizontal_angle'
             /\ gimbal_result'.vertical_angle = vertical_angle']_vars

\* C13 witness: joystick_control(1.5, 1) from the initial angles has moved
\* the gimbal to 85 and 35 degrees.
C13_Witness ==
    /\ gimbal_call.op = "joystick_control"
    /\ gimbal_call.x = 1500 /\ gimbal_call.y = 1000
    /\ horizontal_angle = 85000 /\ vertical_angle = 35000
    /\ gimbal_result.vertical_angle = 35000

\* C14: control(axis, value) with axis horizontal leaves the vertical angle
\* as it was, with axis vertical leaves the horizontal angle as it was, and
\* with any other axis returns the failure result and leaves both.
C14_GimbalControl ==
    [][(ncmds' = ncmds + 1 /\ gimbal_call'.op = "control") =>
         /\ gimbal_call'.action = "horizontal" =>
               (vertical_angle' = vertical_angle /\ gimbal_result'.kind = "ok")
         /\ gimbal_call'.action = "vertical" =>
               (horizontal_angle' = horizontal_angle /\ gimbal_result'.kind = "ok")
         /\ gimbal_call'.action \notin {"horizontal", "vertical"} =>
               /\ gimbal_result'.kind = "error"
               /\ horizontal_angle' = horizontal_angle
               /\ vertical_angle' = vertical_angle]_vars

\* C14 witness: control("zoom", ...) has failed and left the angles that
\* earlier calls had set.
C14_Witness ==
    /\ gimbal_call.op = "control"
    /\ gimbal_call.action = "zoom"
    /\ gimbal_result.kind = "error"
    /\ horizontal_angle = 60500
    /\ vertical_angle = 85000

\* The texts taken by the speech loop so far, in the order of the taking:
\* those handed to the engine, then the one in hand.
TakenItems ==
    [i \in 1..Len(rendered) |-> rendered[i].item]
    \o (IF \E t \in SpeechThreadIds : speech_threads[t].pc = "say"
          THEN <<speech_threads[CHOOSE t \in SpeechThreadIds :
                                  speech_threads[t].pc = "say"].item>>
          ELSE <<>>)

\* C15: the texts are taken for rendering in exactly the order of their
\* appends: the texts taken, followed by the queue, are the texts appended,
\* each once; and two texts of one caller are taken in the order of their
\* speak calls.
C15_SpeechFifo ==
    /\ TakenItems \o speech_queue = appended
    /\ \A i, j \in 1..Len(appended) : i < j => appended[i].n # appended[j].n
    /\ \A i, j \in 1..Len(TakenItems) :
          (i < j /\ TakenItems[i].by = TakenItems[j].by)
          => TakenItems[i].n < TakenItems[j].n
    /\ \A i \in 1..Len(appended) : appended[i].text # ""

\* C15 witness: one caller has said "hi" and then "bye", and both have
\* been rendered, in that order.
C15_Witness ==
    /\ Len(rendered) = 2
    /\ rendered[1].item.text = "hi" /\ rendered[2].item.text = "bye"
    /\ rendered[1].item.by = rendered[2].item.by
    /\ rendered[1].ok /\ rendered[2].ok

\* C16: a speak call with the empty text changes neither the queue nor the
\* flag, and returns without taking the lock.
C16_EmptySpeak ==
    [][\A c \in SpeakerIds :
         (nspeak' = nspeak + 1 /\ speakers'[c] # speakers[c]
            /\ speakers'[c].op = "speak" /\ speakers'[c].item.text = "")
         => /\ speech_queue' = speech_queue
            /\ speaking' = speaking
            /\ appended' = appended
            /\ speech_lock' = speech_lock
            /\ speakers'[c].pc = "idle"]_vars

\* C16 witness: speak("") has returned, as the last call, while a text is
\* queued.
C16_Witness ==
    /\ \E c \in SpeakerIds :
          /\ speakers[c].op = "speak" /\ speakers[c].pc = "idle"
          /\ speakers[c].item.text = ""
    /\ speech_queue # <<>>
    /\ nspeak = MaxSpeechCalls

\* C17: the speech loop never holds the lock while it sleeps in its idle
\* poll or while it renders.
C17_LockFreeWhileBlocked ==
    \A t \in SpeechThreadIds :
      speech_threads[t].pc \in {"sleep", "say"} => speech_lock # <<"thread", t>>

\* C18: at most one text is being rendered at a time.
C18_SingleRendering ==
    Cardinality({t \in SpeechThreadIds : speech_threads[t].pc = "say"}) <= 1

\* C18 witness: a text is being rendered while another waits in the queue.
C18_Witness ==
    /\ \E t \in SpeechThreadIds : speech_threads[t].pc = "say"
    /\ speech_queue # <<>>

\* C19: the flag is true from the pop of a text until its rendering has
\* ended; it is true only while a text is in hand (popped, its finally
\* block not yet run), so is_speaking returns true only then; and no
\* rendering error ends the speech loop.
C19_SpeakingFlag ==
    /\ \A t \in SpeechThreadIds : speech_threads[t].pc = "say" => speaking
    /\ speaking => ItemInHand
    /\ \A c \in SpeakerIds : speakers[c].ret => speakers[c].during
    /\ \A t \in SpeechThreadIds : speech_threads[t].pc # "dead"
    /\ (speech_ready /\ engine) =>
          \E t \in SpeechThreadIds : speech_threads[t].pc # "unborn"

\* C19 witness: a rendering has raised, the next text has been rendered,
\* and the flag is false again.
C19_Witness ==
    /\ Len(rendered) = 2
    /\ ~rendered[1].ok /\ rendered[2].ok
    /\ ~speaking
    /\ ~ItemInHand

\* C20: get_current_frame never returns None and never waits: with no
\* frame captured it returns the all-zero frame of the configured height
\* and width, otherwise the frame most recently stored.
C20_FrameNeverNull ==
    /\ frame_result.kind \in {"none", "zeros", "frame"}
    /\ frame_result.kind = "zeros" =>
          (frame_result.height = 480 /\ frame_result.width = 640
             /\ frame_result.latest = 0)
    /\ frame_result.kind = "frame" =>
          (frame_result.frame = frame_result.latest /\ frame_result.frame > 0)
    /\ (camera_ready /\ viewer.pc = "idle" /\ ncam < MaxCameraCalls)
          => ENABLED GetCurrentFrame
    /\ viewer.pc = "return" => ENABLED GetCurrentFrameReturn

\* C20 witness: the camera did not initialise and get_current_frame has
\* returned the black frame.
C20_Witness ==
    /\ frame_result.kind = "zeros"
    /\ current_frame = 0
    /\ viewer.pc = "idle"

\* C21: a read of the capture loop that delivers no frame leaves the
\* current frame as it was and the loop running (it goes on to its sleep
\* and its next iteration), and a later good read stores its frame.
C21_CaptureFailure ==
    [][\A i \in CameraLoopIds :
         (camera_loops[i].pc = "call" /\ camera_loops'[i].pc # "call" /\ camera)
         => /\ camera_loops'[i].pc = "sleep"
            /\ captured' = captured => current_frame' = current_frame
            /\ captured' # captured =>
                  (current_frame' = captured' /\ captured' = captured + 1)]_vars

\* C21 witness: after a failed read the loop has gone on and a later read
\* has replaced the frame.
C21_Witness ==
    \E i \in CameraLoopIds :
      /\ camera_loops[i].hist = "recovered"
      /\ camera_loops[i].pc = "sleep"
      /\ current_frame = captured
      /\ current_frame >= 2

\* C22: a change a reader makes to a frame it received is never visible in
\* the frame buffer: the current frame is not a frame a reader has written
\* into.
C22_ReaderSnapshot == current_frame \notin frame_marks

\* C23: a status keeps the direction, the speed and the per-wheel values
\* it had when get_status returned it, whatever commands, ticks and timers
\* do afterwards.
C23_StatusSnapshot ==
    status.kind = "ok" => StatusMotors = status.then

\* C24: process_offer adds exactly one new session to the active set; a
\* state change of a session removes that session when the new state is
\* failed or closed and otherwise leaves the set; it never adds or removes
\* another session.
C24_SessionLifecycle ==
    [][\A s \in SessionIds :
         /\ (sessions[s].state = "unborn" /\ sessions'[s].state # "unborn")
            => /\ s \notin peer_connections
               /\ peer_connections' = peer_connections \cup {s}
         /\ (sessions[s].state # "unborn"
               /\ sessions'[s].state # sessions[s].state)
            => peer_connections' =
                 IF sessions'[s].state \in {"failed", "closed"}
                   THEN peer_connections \ {s} ELSE peer_connections]_vars

\* C24 witness: of two sessions one has failed and left the set, the other
\* is connected and still in it.
C24_Witness ==
    \E s, u \in SessionIds :
      /\ sessions[s].state = "failed" /\ s \notin peer_connections
      /\ sessions[u].state = "connected" /\ u \in peer_connections

\* C25: a session whose handshake inside process_offer has raised is not
\* in the active set.
C25_NegotiationFailure ==
    \A s \in SessionIds : sessions[s].neg = "raised" => s \notin peer_connections

\* C26: each loop tests a stop signal at every iteration and exits once
\* its component has been asked to stop: with the signal given, no motion
\* loop, capture loop or speech loop goes from its loop head into another
\* iteration.
C26_CooperativeStop ==
    [][/\ \A i \in LoopIds :
            (~running /\ loops[i].pc = "check") => loops'[i].pc \in {"check", "done"}
       /\ \A i \in CameraLoopIds :
            (~camera_running /\ camera_loops[i].pc = "check")
            => camera_loops'[i].pc \in {"check", "done"}
       /\ \A t \in SpeechThreadIds :
            (shutdown /\ speech_threads[t].pc = "top")
            => speech_threads'[t].pc \in {"top", "done"}]_vars

\* C27: only the control loop writes a wheel output: every step that
\* changes the speed entry of a motor is the write of line 126 by a
\* control-loop thread, never a step of move, stop or an auto-stop timer.
C27_SingleWriter ==
    [][\A k \in MotorIds :
         motors'[k].speed # motors[k].speed
         => \E i \in LoopIds : loops[i].pc = "write" /\ loops'[i] # loops[i]]_vars

\* The four outputs are those of one state of MotionState: one speed times
\* the row of one direction (all 0 for stop or speed 0).
OneCommandOutputs(w) ==
    \E d \in Directions :
      \A m \in MotorIds : w[m] = Abs(w[1]) * TableRow(d)[m]

\* C28: every tick computes its four outputs from the speed and the
\* multipliers of a single command: when a tick has written its fourth
\* motor the outputs are one speed times one row of the table; and a tick
\* writes nothing but 0 once a stop() has completed.
C28_ConsistentTick ==
    [][\A i \in LoopIds :
         /\ (loops[i].pc = "write" /\ loops[i].k = NumMotors
               /\ loops'[i].pc = "check")
            => OneCommandOutputs([m \in MotorIds |-> motors'[m].speed])
         /\ (loops[i].pc = "write" /\ loops'[i] # loops[i] /\ pc = "idle"
               /\ frame.op = "stop" /\ frame.ret = "join")
            => motors'[loops[i].k].speed = 0]_vars

\* The angles after the command of thread a and then that of thread b,
\* from the initial angles
AfterBoth(a, b) ==
    LET h1 == ClampHorizontal(HorizontalInit + gimbal_threads[a].x * DegreesPerUnit)
        v1 == ClampVertical(VerticalInit - gimbal_threads[a].y * DegreesPerUnit)
    IN  <<ClampHorizontal(h1 + gimbal_threads[b].x * DegreesPerUnit),
          ClampVertical(v1 - gimbal_threads[b].y * DegreesPerUnit)>>

\* C29: when two gimbal joystick commands handled concurrently have both
\* finished (and no other has begun), the angles are those of the two
\* commands applied one after the other in one of the two orders.
C29_NoLostUpdate ==
    \A a, b \in GimbalThreadIds :
      (/\ a # b
       /\ gimbal_threads[a].pc = "done" /\ gimbal_threads[b].pc = "done"
       /\ \A g \in GimbalThreadIds \ {a, b} : gimbal_threads[g].pc = "idle")
      => <<horizontal_angle, vertical_angle>> \in {AfterBoth(a, b), AfterBoth(b, a)}

Queued(n) == \E i \in 1..Len(speech_queue) : speech_queue[i].n = n

\* C31: under fair scheduling, every text that speak has appended to the
\* queue is popped from it by the speech loop in the end, whether or not
\* the engine could be initialised.
C31_EventuallyConsumed ==
    \A n \in 1..MaxSpeechCalls : Queued(n) ~> ~Queued(n)

\* Control-loop thread i is inside a tick: it has found self.running true
\* and has not finished writing the motors.
Ticking(i) == loops[i].pc \in {"read", "write"}

\* C32: whatever start and stop calls have been made, one after the other,
\* at most one control-loop thread is inside a tick.
C32_OneControlLoop == Cardinality({i \in LoopIds : Ticking(i)}) <= 1

\* C33: no thread of the capture loop has had a read running on the
\* capture device after stop released it and cleared self.camera.
C33_NoReadAfterRelease == \A i \in CameraLoopIds : ~camera_loops[i].late

=============================================================================
